---- MODULE Spec2Model ----
(***************************************************************************)
(* Model of hyfetch/presets.py: the ColorProfile class (construction,      *)
(* with_weights, with_length, color_text).  Python lists are sequences;    *)
(* a Python index k is the sequence index k + 1.  A str is a sequence of   *)
(* one-character strings, the character 0x1B being written ESC.            *)
(***************************************************************************)
EXTENDS Integers, Sequences, FiniteSets

\* ---------------------------------------------------------------- bounds
MaxColors == 5      \* longest palette handed to the constructor
MaxLength == 12     \* largest length handed to with_length
MaxText == 3        \* longest text handed to color_text
MaxWeights == 3     \* longest weight list handed to with_weights

\* ------------------------------------------------------- characters, text
ESC == "ESC"
TextChars == {" ", "a", ESC}
WeightValues == {-1, 0, 2}

RECURSIVE SeqsUpTo(_, _)
SeqsUpTo(S, n) ==
    IF n = 0 THEN {<<>>}
    ELSE LET shorter == SeqsUpTo(S, n - 1)
         IN shorter \cup {Append(s, x) : s \in {t \in shorter : Len(t) = n - 1}, x \in S}

Texts == SeqsUpTo(TextChars, MaxText)
WeightLists == SeqsUpTo(WeightValues, MaxWeights)

\* --------------------------------------------------- color_util (RGB type)
HexDigits == <<"0", "1", "2", "3", "4", "5", "6", "7", "8", "9",
               "A", "B", "C", "D", "E", "F">>

HexVal(c) == (CHOOSE k \in 1..16 : HexDigits[k] = c) - 1

\* RGB.from_hex: drop the leading '#', read three two-digit hex numbers.
FromHex(h) ==
    LET d == IF Len(h) > 0 /\ h[1] = "#" THEN Tail(h) ELSE h
    IN [r |-> 16 * HexVal(d[1]) + HexVal(d[2]),
        g |-> 16 * HexVal(d[3]) + HexVal(d[4]),
        b |-> 16 * HexVal(d[5]) + HexVal(d[6])]

RECURSIVE Dec(_)
\* decimal formatting of a non-negative integer, as str(int) does
Dec(n) == IF n < 10 THEN <<HexDigits[n + 1]>>
          ELSE Dec(n \div 10) \o <<HexDigits[(n % 10) + 1]>>

\* RGB.to_ansi_rgb: ESC[38;2;R;G;Bm (foreground) or ESC[48;2;R;G;Bm
ToAnsiRgb(c, fg) ==
    <<ESC, "[">> \o (IF fg THEN <<"3", "8">> ELSE <<"4", "8">>)
      \o <<";", "2", ";">> \o Dec(c.r) \o <<";">> \o Dec(c.g)
      \o <<";">> \o Dec(c.b) \o <<"m">>

\* the literal '\033[0m' of color_text
RESET == <<ESC, "[", "0", "m">>

\* ------------------------------------------------------- palettes (inputs)
\* the 'rainbow' entry of PRESETS
Rainbow ==
    << [hex |-> <<"#", "E", "5", "0", "0", "0", "0">>],
       [hex |-> <<"#", "F", "F", "8", "D", "0", "0">>],
       [hex |-> <<"#", "F", "F", "E", "E", "0", "0">>],
       [hex |-> <<"#", "0", "2", "8", "1", "2", "1">>],
       [hex |-> <<"#", "0", "0", "4", "C", "F", "F">>],
       [hex |-> <<"#", "7", "7", "0", "0", "8", "8">>] >>

\* a preset cycled to n entries (n may be 0: the empty list)
Cycle(p, n) == [k \in 1..n |-> p[((k - 1) % Len(p)) + 1]]

HexLists == {Cycle(Rainbow, n) : n \in 0..MaxColors}

RGBLists == {[k \in 1..Len(l) |-> FromHex(l[k].hex)] : l \in HexLists}

\* isinstance(c, str)
IsStr(c) == "hex" \in DOMAIN c

\* ------------------------------------------------------------------ state
VARIABLES
    exists,       \* a ColorProfile object has been constructed
    raw,          \* self.raw ("unset" when __init__ did not assign it)
    colors,       \* self.colors
    colors0,      \* history: self.colors as __init__ left it
    op,           \* the method called last
    err,          \* the exception the last call raised, or "none"
    pc,           \* position inside the running call
    length,       \* with_length: length
    txt,          \* color_text: txt
    foreground,   \* color_text: foreground
    space_only,   \* color_text: space_only
    warg,         \* with_weights: weights (the argument of a direct call)
    preset_len,   \* with_length locals
    center_i,
    repeats,
    weights,
    extras,
    border_i,
    ret,          \* the list with_weights / with_length returned
    i,            \* color_text: loop index
    result,       \* color_text: result
    repeated,     \* history: this call repeats the previous call's arguments
    prev          \* history: what the previous call returned, when repeated

self == <<exists, raw, colors, colors0>>
args == <<length, txt, foreground, space_only, warg>>
locals == <<preset_len, center_i, repeats, weights, extras, border_i>>
hist == <<repeated, prev>>
vars == <<exists, raw, colors, colors0, op, err, pc, length, txt, foreground,
          space_only, warg, preset_len, center_i, repeats, weights, extras,
          border_i, ret, i, result, repeated, prev>>

Init ==
    /\ exists = FALSE
    /\ raw = "unset"
    /\ colors = <<>>
    /\ colors0 = <<>>
    /\ op = "none"
    /\ err = "none"
    /\ pc = "idle"
    /\ length = 0
    /\ txt = <<>>
    /\ foreground = TRUE
    /\ space_only = FALSE
    /\ warg = <<>>
    /\ preset_len = 0
    /\ center_i = 0
    /\ repeats = 0
    /\ weights = <<>>
    /\ extras = 0
    /\ border_i = 0
    /\ ret = <<>>
    /\ i = 0
    /\ result = <<>>
    /\ repeated = FALSE
    /\ prev = <<>>

\* what the last finished call gave back: its exception and its value
Outcome == <<err, IF op = "color_text" THEN result ELSE ret>>

\* ------------------------------------------------- ColorProfile.__init__
\* colors[0] of an empty list raises IndexError before any field is set
InitRaises(cs) == Len(cs) = 0

ResetCall ==
    /\ length' = 0
    /\ txt' = <<>>
    /\ foreground' = TRUE
    /\ space_only' = FALSE
    /\ warg' = <<>>
    /\ preset_len' = 0
    /\ center_i' = 0
    /\ repeats' = 0
    /\ weights' = <<>>
    /\ extras' = 0
    /\ border_i' = 0
    /\ ret' = <<>>
    /\ i' = 0
    /\ result' = <<>>
    /\ repeated' = FALSE
    /\ prev' = <<>>

\* `if colors and isinstance(colors[0], str)`: an empty list is accepted
ConstructUnchecked(cs) ==
    /\ pc = "idle"
    /\ op' = "__init__"
    /\ pc' = "idle"
    /\ ResetCall
    /\ err' = "none"
    /\ exists' = TRUE
    /\ IF Len(cs) > 0 /\ IsStr(cs[1])
       THEN /\ raw' = cs
            /\ colors' = [k \in 1..Len(cs) |-> FromHex(cs[k].hex)]
       ELSE /\ raw' = "unset"
            /\ colors' = cs
    /\ colors0' = colors'

Construct(cs) ==
    /\ pc = "idle"
    /\ op' = "__init__"
    /\ pc' = "idle"
    /\ ResetCall
    /\ IF InitRaises(cs)
       THEN /\ err' = "IndexError"
            /\ UNCHANGED self
       ELSE /\ err' = "none"
            /\ exists' = TRUE
            /\ IF IsStr(cs[1])
               THEN /\ raw' = cs
                    /\ colors' = [k \in 1..Len(cs) |-> FromHex(cs[k].hex)]
               ELSE /\ raw' = "unset"
                    /\ colors' = cs
            /\ colors0' = colors'

ConstructFromHex == \E cs \in HexLists : Construct(cs)

ConstructFromRGB == \E cs \in RGBLists : Construct(cs)

\* ----------------------------------------------------------- Python lists
\* a Python index k (negative: from the end) as an offset 0..n-1
PyIndex(n, k) == IF k < 0 THEN k + n ELSE k

\* indexing a list of n entries with k raises IndexError
IndexRaises(n, k) == PyIndex(n, k) < 0 \/ PyIndex(n, k) >= n

\* [c] * w : w copies of c, none when w <= 0
Repeat(c, w) == [k \in 1..w |-> c]

\* ------------------------------------------- ColorProfile.with_weights
WithWeightsRaises(cs, ws) == \E k \in 1..Len(ws) : IndexRaises(Len(cs), k - 1)

RECURSIVE WithWeightsUpTo(_, _, _)
WithWeightsUpTo(cs, ws, n) ==
    IF n = 0 THEN <<>>
    ELSE WithWeightsUpTo(cs, ws, n - 1) \o Repeat(cs[n], ws[n])

WithWeights(cs, ws) == WithWeightsUpTo(cs, ws, Len(ws))

\* a call of a method on the constructed object; the history variables
\* note whether it repeats the previous call
StartCall(o, len, tx, fg, so, wa) ==
    /\ pc = "idle"
    /\ exists
    /\ op' = o
    /\ txt' = tx
    /\ foreground' = fg
    /\ space_only' = so
    /\ warg' = wa
    /\ repeated' = (op = o /\ length = len /\ txt = tx /\ foreground = fg
                      /\ space_only = so /\ warg = wa)
    /\ prev' = IF repeated' THEN Outcome ELSE <<>>

CallWithWeights ==
    \E ws \in WeightLists :
        /\ StartCall("with_weights", 0, <<>>, TRUE, FALSE, ws)
        /\ length' = 0
        /\ preset_len' = 0
        /\ center_i' = 0
        /\ repeats' = 0
        /\ weights' = <<>>
        /\ extras' = 0
        /\ border_i' = 0
        /\ i' = 0
        /\ result' = <<>>
        /\ pc' = "idle"
        /\ IF WithWeightsRaises(colors, ws)
           THEN /\ err' = "IndexError"
                /\ ret' = <<>>
           ELSE /\ err' = "none"
                /\ ret' = WithWeights(colors, ws)
        /\ UNCHANGED self

\* --------------------------------------------- ColorProfile.with_length
CenterIndexFirst(n) == 0

CenterIndex(n) == n \div 2

\* the comment of line 47: "If there is an even space left"
OddLeftAsCommented(e) == e % 2 = 0

OddLeft(e) == e % 2 = 1

LoopCondInclusive(e) == e >= 0

LoopCond(e) == e > 0

\* `extras -= 1`
BorderDecrementOne == 2 - 1

BorderDecrement == 2

MirrorIndexShifted(b) == -(b + 2)

MirrorIndex(b) == -(b + 1)

\* lines 37-45: preset_len, center_i, repeats, weights, extras
WithLengthBegin(len) ==
    /\ length' = len
    /\ preset_len' = Len(colors)
    /\ center_i' = CenterIndex(Len(colors))
    /\ border_i' = 0
    /\ ret' = <<>>
    /\ i' = 0
    /\ result' = <<>>
    /\ IF Len(colors) = 0
       THEN /\ err' = "ZeroDivisionError"
            /\ pc' = "idle"
            /\ repeats' = 0
            /\ weights' = <<>>
            /\ extras' = 0
       ELSE /\ err' = "none"
            /\ pc' = "wl_center"
            /\ repeats' = len \div Len(colors)
            /\ weights' = [k \in 1..Len(colors) |-> len \div Len(colors)]
            /\ extras' = len % Len(colors)

CallWithLength ==
    \E len \in 0..MaxLength :
        /\ StartCall("with_length", len, <<>>, TRUE, FALSE, <<>>)
        /\ WithLengthBegin(len)
        /\ UNCHANGED self

\* lines 48-53: an odd remainder gives one unit to the centre
WithLengthCenter ==
    /\ pc = "wl_center"
    /\ IF OddLeft(extras)
       THEN /\ extras' = extras - 1
            /\ IF IndexRaises(preset_len, center_i)
               THEN /\ err' = "IndexError"
                    /\ pc' = "idle"
                    /\ weights' = weights
               ELSE /\ err' = err
                    /\ pc' = "wl_border"
                    /\ weights' = [weights EXCEPT ![center_i + 1] = @ + 1]
       ELSE /\ pc' = "wl_border"
            /\ UNCHANGED <<extras, weights, err>>
    /\ border_i' = 0
    /\ UNCHANGED <<self, args, hist, op, preset_len, center_i, repeats, ret,
                   i, result>>

\* lines 54-58: one iteration of the border loop
WithLengthBorder ==
    /\ pc = "wl_border"
    /\ LoopCond(extras)
    /\ extras' = extras - BorderDecrement
    /\ IF IndexRaises(preset_len, border_i)
            \/ IndexRaises(preset_len, MirrorIndex(border_i))
       THEN /\ err' = "IndexError"
            /\ pc' = "idle"
            /\ UNCHANGED <<weights, border_i>>
       ELSE /\ err' = err
            /\ pc' = pc
            /\ weights' =
                 LET w1 == [weights EXCEPT ![border_i + 1] = @ + 1]
                     m == PyIndex(preset_len, MirrorIndex(border_i)) + 1
                 IN [w1 EXCEPT ![m] = @ + 1]
            /\ border_i' = border_i + 1
    /\ UNCHANGED <<self, args, hist, op, preset_len, center_i, repeats, ret,
                   i, result>>

\* the expansion is also stored in self.colors
WithLengthReturnStoring ==
    /\ pc = "wl_border"
    /\ ~LoopCond(extras)
    /\ ret' = WithWeights(colors, weights)
    /\ colors' = IF Len(ret') > 0 THEN ret' ELSE colors
    /\ pc' = IF op = "color_text" THEN "ct_loop" ELSE "idle"
    /\ UNCHANGED <<exists, raw, colors0, args, hist, locals, op, err, i, result>>

\* line 60 (the loop condition is false): return self.with_weights(weights)
WithLengthReturn ==
    /\ pc = "wl_border"
    /\ ~LoopCond(extras)
    /\ IF WithWeightsRaises(colors, weights)
       THEN /\ err' = "IndexError"
            /\ pc' = "idle"
            /\ ret' = <<>>
       ELSE /\ err' = err
            /\ pc' = IF op = "color_text" THEN "ct_loop" ELSE "idle"
            /\ ret' = WithWeights(colors, weights)
    /\ UNCHANGED <<self, args, hist, locals, op, i, result>>

\* ----------------------------------------------- ColorProfile.color_text
\* line 74: the character is written without a colour
Uncoloured(so, t) == so /\ t # " "

\* `if txt[i - 1] == ' '` without `i > 0`: index -1 is the last character
UncolouredPieceUnguarded(tx, k) ==
    (IF tx[PyIndex(Len(tx), k - 1) + 1] = " " THEN RESET ELSE <<>>) \o <<tx[k + 1]>>

\* lines 75-77
UncolouredPiece(tx, k) ==
    (IF k > 0 /\ tx[k] = " " THEN RESET ELSE <<>>) \o <<tx[k + 1]>>

\* the character written before its colour
ColouredPieceSwapped(cseq, tx, k, fg) == <<tx[k + 1]>> \o ToAnsiRgb(cseq[k + 1], fg)

\* line 79
ColouredPiece(cseq, tx, k, fg) == ToAnsiRgb(cseq[k + 1], fg) \o <<tx[k + 1]>>

\* the reset skipped when nothing was written
FinishNonEmpty(res) == IF res = <<>> THEN res ELSE res \o RESET

\* line 81
Finish(res) == res \o RESET

\* line 71: colors = self.with_length(len(txt))
CallColorText ==
    \E tx \in Texts, fg \in BOOLEAN, so \in BOOLEAN :
        /\ StartCall("color_text", Len(tx), tx, fg, so, <<>>)
        /\ WithLengthBegin(Len(tx))
        /\ UNCHANGED self

\* lines 73-79: one iteration of the loop over the characters
ColorTextStep ==
    /\ pc = "ct_loop"
    /\ i < Len(txt)
    /\ IF Uncoloured(space_only, txt[i + 1])
       THEN /\ result' = result \o UncolouredPiece(txt, i)
            /\ i' = i + 1
            /\ UNCHANGED <<err, pc>>
       ELSE IF IndexRaises(Len(ret), i)
            THEN /\ err' = "IndexError"
                 /\ pc' = "idle"
                 /\ UNCHANGED <<result, i>>
            ELSE /\ result' = result \o ColouredPiece(ret, txt, i, foreground)
                 /\ i' = i + 1
                 /\ UNCHANGED <<err, pc>>
    /\ UNCHANGED <<self, args, hist, locals, op, ret>>

\* lines 81-82
ColorTextFinish ==
    /\ pc = "ct_loop"
    /\ i = Len(txt)
    /\ result' = Finish(result)
    /\ pc' = "idle"
    /\ UNCHANGED <<self, args, hist, locals, op, err, ret, i>>

Next ==
    \/ ConstructFromHex
    \/ ConstructFromRGB
    \/ CallWithWeights
    \/ CallWithLength
    \/ WithLengthCenter
    \/ WithLengthBorder
    \/ WithLengthReturn
    \/ CallColorText
    \/ ColorTextStep
    \/ ColorTextFinish

Spec == Init /\ [][Next]_vars
\* ------------------------------------------------------------ properties
RECURSIVE Sum(_)
Sum(s) == IF s = <<>> THEN 0 ELSE s[1] + Sum(Tail(s))

\* a with_length run (direct, or inside color_text) is past its border loop
\* and returned normally: weights holds the final weight vector
WeightsFinal ==
    /\ op \in {"with_length", "color_text"}
    /\ pc \in {"idle", "ct_loop"}
    /\ err = "none"

Palindrome(w) == \A k \in 1..Len(w) : w[k] = w[Len(w) + 1 - k]

\* reading of an output string: escape sequences ESC [ params m
ParamChars == {"0", "1", "2", "3", "4", "5", "6", "7", "8", "9", ";"}

RECURSIVE SkipParams(_, _)
SkipParams(s, q) ==
    IF q <= Len(s) /\ s[q] \in ParamChars THEN SkipParams(s, q + 1) ELSE q

\* length of the escape sequence that starts at position p of s, 0 if none
EscLen(s, p) ==
    IF s[p] = ESC /\ p + 1 <= Len(s) /\ s[p + 1] = "["
    THEN LET q == SkipParams(s, p + 2)
         IN IF q <= Len(s) /\ s[q] = "m" THEN q - p + 1 ELSE 0
    ELSE 0

IsColourEscape(s, p) ==
    /\ EscLen(s, p) > 4
    /\ s[p + 2] \in {"3", "4"}
    /\ s[p + 3] = "8"

IsResetAt(s, p) == EscLen(s, p) = 4 /\ s[p + 2] = "0"

RECURSIVE StripEscapes(_, _)
StripEscapes(s, p) ==
    IF p > Len(s) THEN <<>>
    ELSE IF EscLen(s, p) > 0 THEN StripEscapes(s, p + EscLen(s, p))
         ELSE <<s[p]>> \o StripEscapes(s, p + 1)

RECURSIVE CountColourEscapes(_, _)
CountColourEscapes(s, p) ==
    IF p > Len(s) THEN 0
    ELSE IF EscLen(s, p) > 0
         THEN (IF IsColourEscape(s, p) THEN 1 ELSE 0)
                + CountColourEscapes(s, p + EscLen(s, p))
         ELSE CountColourEscapes(s, p + 1)

RECURSIVE CountResets(_, _)
CountResets(s, p) ==
    IF p > Len(s) THEN 0
    ELSE IF EscLen(s, p) > 0
         THEN (IF IsResetAt(s, p) THEN 1 ELSE 0)
                + CountResets(s, p + EscLen(s, p))
         ELSE CountResets(s, p + 1)

RECURSIVE Concat(_, _)
\* f[1] \o ... \o f[n]
Concat(f, n) == IF n = 0 THEN <<>> ELSE Concat(f, n - 1) \o f[n]

\* color_text returned normally
TextDone == op = "color_text" /\ pc = "idle" /\ err = "none"

\* C1: for a palette of N >= 1 colours and a length L >= 0, with_length
\* builds N non-negative integer weights that sum to L, and the colour
\* sequence it returns has L entries.
C1_WeightsSumToLength ==
    WeightsFinal =>
        /\ Len(weights) = Len(colors)
        /\ Len(colors) >= 1
        /\ \A k \in 1..Len(weights) : weights[k] >= 0
        /\ Sum(weights) = length
        /\ Len(ret) = length

C1_Witness ==
    /\ WeightsFinal
    /\ op = "with_length"
    /\ Len(colors) = 4
    /\ length = 7
    /\ Len(ret) = 7

\* C2 as stated: for odd or even N, the weight vector of with_length is a
\* palindrome.
C2_PalindromeAlways == WeightsFinal => Palindrome(weights)

\* C2 amended: the weight vector is a palindrome when N is odd or L mod N is
\* even; when N is even and L mod N is odd the pair (N/2 - 1, N/2) is the one
\* exception, with weights[N/2] = weights[N/2 - 1] + 1.
C2_PalindromeUnlessEvenOdd ==
    WeightsFinal =>
        LET n == Len(weights)
        IN IF n % 2 = 1 \/ (length % n) % 2 = 0
           THEN Palindrome(weights)
           ELSE /\ weights[(n \div 2) + 1] = weights[n \div 2] + 1
                /\ \A k \in 1..n :
                       k \notin {n \div 2, (n \div 2) + 1}
                           => weights[k] = weights[n + 1 - k]

C2_Witness ==
    /\ WeightsFinal
    /\ Len(weights) = 4
    /\ length = 7
    /\ weights = <<2, 1, 2, 2>>

\* C3: a palette of zero colours is rejected by the constructor with an
\* error, so no ColorProfile with N = 0 exists and with_length never divides
\* by zero.
C3_EmptyPaletteRejected ==
    /\ exists => Len(colors) >= 1
    /\ err # "ZeroDivisionError"
    /\ (op = "__init__" /\ err = "none") => exists

C3_Witness == op = "__init__" /\ err = "IndexError" /\ ~exists

\* C4: with space_only, a space is written after the colour escape of its
\* position, any other character is written without a colour escape, with a
\* reset right before it exactly when it is not the first character and the
\* character before it is a space; the output ends with a reset.
C4_Piece(k) ==
    IF txt[k] = " "
    THEN ToAnsiRgb(ret[k], foreground) \o <<" ">>
    ELSE IF k > 1 /\ txt[k - 1] = " "
         THEN RESET \o <<txt[k]>>
         ELSE <<txt[k]>>

C4_SpaceOnlyOutput ==
    (TextDone /\ space_only) =>
        result = Concat([k \in 1..Len(txt) |-> C4_Piece(k)], Len(txt)) \o RESET

C4_Witness ==
    /\ TextDone
    /\ space_only
    /\ txt = <<"a", " ", "a">>
    /\ Len(result) > 6

\* C5: color_text("") returns the reset sequence alone, for both values of
\* foreground and of space_only, and with_length(0) returns an empty colour
\* sequence; neither raises.
C5_EmptyInputs ==
    /\ (op = "color_text" /\ pc = "idle" /\ txt = <<>>)
          => (err = "none" /\ result = <<ESC, "[", "0", "m">>)
    /\ (op = "with_length" /\ pc = "idle" /\ length = 0)
          => (err = "none" /\ ret = <<>>)
    /\ (op = "color_text" /\ txt = <<>>) => err = "none"

C5_Witness ==
    /\ op = "color_text"
    /\ pc = "idle"
    /\ txt = <<>>
    /\ ~foreground
    /\ space_only
    /\ Len(result) = 4

C7_PaletteUnchanged ==
    /\ exists => colors = colors0
    /\ (pc = "idle" /\ repeated) => Outcome = prev

C7_Witness ==
    /\ pc = "idle"
    /\ repeated
    /\ op = "color_text"
    /\ Len(txt) = 2
    /\ Len(colors) = 3

\* C8: without space_only the output is, for each position in order, the
\* escape of that position's colour followed by the character, then one
\* reset; it holds exactly L colour escapes, and without its escapes it is
\* the text.
C8_Piece(k) == ToAnsiRgb(ret[k], foreground) \o <<txt[k]>>

C8_ColourEveryCharacter ==
    (TextDone /\ ~space_only) =>
        /\ ret = WithWeights(colors, weights)
        /\ Len(ret) = Len(txt)
        /\ result = Concat([k \in 1..Len(txt) |-> C8_Piece(k)], Len(txt)) \o RESET
        /\ CountColourEscapes(result, 1) = Len(txt)
        /\ CountResets(result, 1) = 1
        /\ StripEscapes(result, 1) = txt

C8_Witness ==
    /\ TextDone
    /\ ~space_only
    /\ txt = <<"a", ESC, " ">>
    /\ Len(colors) = 2

\* C9: the border loop of with_length ends with extras = 0, extras is never
\* negative, and in every iteration border_i is below its mirrored index
\* N-1-border_i, both being valid indices.
C9_BorderLoopSafe ==
    /\ extras >= 0
    /\ err # "IndexError" \/ op \in {"__init__", "with_weights"}
    /\ pc = "wl_border" =>
          /\ extras % 2 = 0
          /\ border_i <= preset_len \div 2
          /\ LoopCond(extras) =>
                /\ ~IndexRaises(preset_len, border_i)
                /\ ~IndexRaises(preset_len, MirrorIndex(border_i))
                /\ border_i < PyIndex(preset_len, MirrorIndex(border_i))
                /\ PyIndex(preset_len, MirrorIndex(border_i))
                      = preset_len - 1 - border_i
    /\ WeightsFinal => extras = 0

C9_Witness ==
    /\ pc = "wl_border"
    /\ preset_len = 5
    /\ border_i = 1
    /\ extras = 2

\* C10: every weight with_length computes is L div N or L div N + 1; the
\* border loop never reaches the centre index N div 2.
C10_WeightsDifferByAtMostOne ==
    /\ WeightsFinal =>
          \A k \in 1..Len(weights) :
              weights[k] \in {length \div Len(colors), (length \div Len(colors)) + 1}
    /\ (pc = "wl_border" /\ LoopCond(extras)) =>
          /\ border_i # center_i
          /\ PyIndex(preset_len, MirrorIndex(border_i)) # center_i

C10_Witness ==
    /\ WeightsFinal
    /\ Len(colors) = 5
    /\ length = 9
    /\ weights = <<2, 2, 1, 2, 2>>
====
